---- MODULE Spec2Model ----
(***************************************************************************)
(* Model of support.py: the four piece selectors (three unbounded-knapsack *)
(* dynamic programs and one greedy) and calculate_single_strategy_layout.  *)
(*                                                                         *)
(* Python floats are modelled as fixed-point numbers counted in 1/Unit:    *)
(* the inputs are multiples of 1/2, so every value the layout computes     *)
(* (including internal_alpha_waste / 2.0) is a multiple of 1/4 and is      *)
(* represented exactly, as it is in binary floating point at these sizes.  *)
(* Piece lengths are scaled down from the 305..1829 mm catalogue so that   *)
(* the DP tables stay small.                                               *)
(***************************************************************************)
EXTENDS Integers, Sequences, FiniteSets, TLC

\* ---------------------------------------------------------------- bounds
MaxCap == 13            \* largest target_capacity of a direct selector call
MaxCatalogLen == 3      \* longest piece_types list of a direct selector call
MaxTotal == 8           \* largest total_length of a layout call, in whole units

\* fixed-point denominator of the float model
Unit == 4
\* float('inf'), the initial piece count of the min-pieces table
Inf == 999

\* piece lengths a direct selector call may be given
PieceLengths == {2, 4, 5, 6, 8}
\* the master list the user interface builds the layout's catalogue from
AVAILABLE_PIECE_LENGTHS_MASTER == <<8, 6, 5, 4, 2>>

DIST_EVEN == "even_both_ends"
DIST_NONE == "none_min_margin_only"
DIST_OTHER == "other"

FN_LARGE == "optimize_dp_max_fill_large_priority"
FN_MIN == "optimize_dp_max_fill_min_pieces"
FN_MAX == "optimize_dp_max_fill_max_pieces"
FN_GREEDY == "optimize_greedy_largest_first"
Strategies == {FN_MIN, FN_LARGE, FN_GREEDY, FN_MAX}
DPStrategies == {FN_MIN, FN_LARGE, FN_MAX}

\* ---------------------------------------------------------------- helpers
SetMax(S) == CHOOSE m \in S : \A x \in S : x <= m
SetMin(S) == CHOOSE m \in S : \A x \in S : m <= x

\* set(piece_types)
SetOf(seq) == {seq[k] : k \in 1..Len(seq)}

RECURSIVE SumSeq(_)
SumSeq(seq) == IF seq = <<>> THEN 0 ELSE Head(seq) + SumSeq(Tail(seq))

\* sorted(list(set(piece_types)), reverse=True)
RECURSIVE SortedDescSet(_)
SortedDescSet(S) ==
    IF S = {} THEN <<>>
    ELSE LET m == SetMax(S) IN <<m>> \o SortedDescSet(S \ {m})

\* sorted(list(set(piece_types)))
RECURSIVE SortedAscSet(_)
SortedAscSet(S) ==
    IF S = {} THEN <<>>
    ELSE LET m == SetMin(S) IN <<m>> \o SortedAscSet(S \ {m})

RemoveAt(seq, k) == SubSeq(seq, 1, k - 1) \o SubSeq(seq, k + 1, Len(seq))

\* sorted(combination, reverse=True) on a list that may repeat values
RECURSIVE SortedDesc(_)
SortedDesc(seq) ==
    IF seq = <<>> THEN <<>>
    ELSE LET m == SetMax(SetOf(seq))
             k == CHOOSE j \in 1..Len(seq) : seq[j] = m
         IN <<m>> \o SortedDesc(RemoveAt(seq, k))

\* float(n) of an integer n, and int(x) of a float x (truncation toward zero)
ToFloat(n) == n * Unit
\* IntOf rounding a fractional value up instead of truncating it
IntOfRoundUp(x) == IF x >= 0 THEN (x + Unit - 1) \div Unit ELSE -((-x) \div Unit)
IntOf(x) == IF x >= 0 THEN x \div Unit ELSE -((-x) \div Unit)
Abs(x) == IF x >= 0 THEN x ELSE -x
Max0(x) == IF x > 0 THEN x ELSE 0

\* inf + 1 = inf
PlusOne(n) == IF n = Inf THEN Inf ELSE n + 1

\* ------------------------------------ optimize_dp_max_fill_large_priority
\* the tables before the loops: dp_value = [0]*(n+1), dp_combination = [[]]*(n+1)
LargeInit(target_capacity) ==
    [dp_value |-> [i \in 0..target_capacity |-> 0],
     dp_combination |-> [i \in 0..target_capacity |-> <<>>]]

\* LargeCell extending the combination already in cell i instead of the one
\* in cell i - piece_len
LargeCellStaleCombination(dp, i, piece_len) ==
    IF dp.dp_value[i - piece_len] + piece_len > dp.dp_value[i]
    THEN [dp_value |-> [dp.dp_value EXCEPT ![i] = dp.dp_value[i - piece_len] + piece_len],
          dp_combination |-> [dp.dp_combination EXCEPT
                                 ![i] = Append(dp.dp_combination[i], piece_len)]]
    ELSE dp

\* one iteration of the inner loop: cell i, piece piece_len
LargeCell(dp, i, piece_len) ==
    IF dp.dp_value[i - piece_len] + piece_len > dp.dp_value[i]
    THEN [dp_value |-> [dp.dp_value EXCEPT ![i] = dp.dp_value[i - piece_len] + piece_len],
          dp_combination |-> [dp.dp_combination EXCEPT
                                 ![i] = Append(dp.dp_combination[i - piece_len], piece_len)]]
    ELSE dp

\* LargeInner visiting the cells from target_capacity down to piece_len, which
\* lets every piece length be used at most once
RECURSIVE LargeInnerDownward(_, _, _)
LargeInnerDownward(st, piece_len, target_capacity) ==
    IF st.i > target_capacity THEN st.dp
    ELSE LargeInnerDownward(
             [dp |-> LargeCell(st.dp, target_capacity - (st.i - piece_len), piece_len),
              i |-> st.i + 1],
             piece_len, target_capacity)

\* for i in range(piece_len, target_capacity + 1); st holds the tables and i
RECURSIVE LargeInner(_, _, _)
LargeInner(st, piece_len, target_capacity) ==
    IF st.i > target_capacity THEN st.dp
    ELSE LargeInner([dp |-> LargeCell(st.dp, st.i, piece_len), i |-> st.i + 1],
                    piece_len, target_capacity)

\* for piece_len in sorted_piece_types; st holds the tables and the list index k
RECURSIVE LargeOuter(_, _, _)
LargeOuter(st, sorted_piece_types, target_capacity) ==
    IF st.k > Len(sorted_piece_types) THEN st.dp
    ELSE LargeOuter([dp |-> LargeInner([dp |-> st.dp, i |-> sorted_piece_types[st.k]],
                                       sorted_piece_types[st.k], target_capacity),
                     k |-> st.k + 1],
                    sorted_piece_types, target_capacity)

\* the finished tables, as one cell record per capacity
LargeTable(target_capacity, piece_types) ==
    LET dp == LargeOuter([dp |-> LargeInit(target_capacity), k |-> 1],
                         SortedDescSet(SetOf(piece_types)), target_capacity)
    IN [i \in 0..target_capacity |->
           [sum |-> dp.dp_value[i], combo |-> dp.dp_combination[i]]]

\* ---------------------------------------- optimize_dp_max_fill_min_pieces
MinInit(target_capacity) ==
    [i \in 0..target_capacity |->
        IF i = 0 THEN [sum |-> 0, num |-> 0, combo |-> <<>>]
                 ELSE [sum |-> 0, num |-> Inf, combo |-> <<>>]]

\* body of the inner loop: cell i, piece piece_len
MinCell(dp_state, i, piece_len) ==
    IF i >= piece_len
    THEN LET prev == dp_state[i - piece_len]
             current_sum_candidate == prev.sum + piece_len
             current_num_pieces_candidate == PlusOne(prev.num)
             cand == [sum |-> current_sum_candidate,
                      num |-> current_num_pieces_candidate,
                      combo |-> Append(prev.combo, piece_len)]
         IN IF current_sum_candidate > dp_state[i].sum
            THEN [dp_state EXCEPT ![i] = cand]
            ELSE IF current_sum_candidate = dp_state[i].sum
                    /\ current_num_pieces_candidate < dp_state[i].num
                 THEN [dp_state EXCEPT ![i] = cand]
                 ELSE dp_state
    ELSE dp_state

\* for piece_len in sorted_piece_types; st holds the table and the list index k
RECURSIVE MinInner(_, _, _)
MinInner(st, i, sorted_piece_types) ==
    IF st.k > Len(sorted_piece_types) THEN st.dp_state
    ELSE MinInner([dp_state |-> MinCell(st.dp_state, i, sorted_piece_types[st.k]), k |-> st.k + 1],
                  i, sorted_piece_types)

\* for i in range(1, target_capacity + 1); st holds the table and i
RECURSIVE MinOuter(_, _, _)
MinOuter(st, sorted_piece_types, target_capacity) ==
    IF st.i > target_capacity THEN st.dp_state
    ELSE MinOuter([dp_state |-> MinInner([dp_state |-> st.dp_state, k |-> 1], st.i, sorted_piece_types),
                   i |-> st.i + 1],
                  sorted_piece_types, target_capacity)

MinTable(target_capacity, piece_types) ==
    MinOuter([dp_state |-> MinInit(target_capacity), i |-> 1],
             SortedDescSet(SetOf(piece_types)), target_capacity)

\* ---------------------------------------- optimize_dp_max_fill_max_pieces
MaxInit(target_capacity) ==
    [i \in 0..target_capacity |-> [sum |-> 0, num |-> 0, combo |-> <<>>]]

\* MaxCell with the tie comparison of min-pieces: fewer pieces win a tie
MaxCellPreferFewer(dp_state, i, piece_len) ==
    IF i >= piece_len
    THEN LET prev == dp_state[i - piece_len]
             current_sum_candidate == prev.sum + piece_len
             current_num_pieces_candidate == prev.num + 1
             cand == [sum |-> current_sum_candidate,
                      num |-> current_num_pieces_candidate,
                      combo |-> Append(prev.combo, piece_len)]
         IN IF current_sum_candidate > dp_state[i].sum
            THEN [dp_state EXCEPT ![i] = cand]
            ELSE IF current_sum_candidate = dp_state[i].sum
                    /\ current_num_pieces_candidate < dp_state[i].num
                 THEN [dp_state EXCEPT ![i] = cand]
                 ELSE dp_state
    ELSE dp_state

\* MaxCell recording [piece_len] instead of prev_combo + [piece_len]
MaxCellDropsPrefix(dp_state, i, piece_len) ==
    IF i >= piece_len
    THEN LET prev == dp_state[i - piece_len]
             current_sum_candidate == prev.sum + piece_len
             current_num_pieces_candidate == prev.num + 1
             cand == [sum |-> current_sum_candidate,
                      num |-> current_num_pieces_candidate,
                      combo |-> <<piece_len>>]
         IN IF current_sum_candidate > dp_state[i].sum
            THEN [dp_state EXCEPT ![i] = cand]
            ELSE IF current_sum_candidate = dp_state[i].sum
                    /\ current_num_pieces_candidate > dp_state[i].num
                 THEN [dp_state EXCEPT ![i] = cand]
                 ELSE dp_state
    ELSE dp_state

\* body of the inner loop: cell i, piece piece_len
MaxCell(dp_state, i, piece_len) ==
    IF i >= piece_len
    THEN LET prev == dp_state[i - piece_len]
             current_sum_candidate == prev.sum + piece_len
             current_num_pieces_candidate == prev.num + 1
             cand == [sum |-> current_sum_candidate,
                      num |-> current_num_pieces_candidate,
                      combo |-> Append(prev.combo, piece_len)]
         IN IF current_sum_candidate > dp_state[i].sum
            THEN [dp_state EXCEPT ![i] = cand]
            ELSE IF current_sum_candidate = dp_state[i].sum
                    /\ current_num_pieces_candidate > dp_state[i].num
                 THEN [dp_state EXCEPT ![i] = cand]
                 ELSE dp_state
    ELSE dp_state

RECURSIVE MaxInner(_, _, _)
MaxInner(st, i, sorted_piece_types_asc) ==
    IF st.k > Len(sorted_piece_types_asc) THEN st.dp_state
    ELSE MaxInner([dp_state |-> MaxCell(st.dp_state, i, sorted_piece_types_asc[st.k]), k |-> st.k + 1],
                  i, sorted_piece_types_asc)

\* for i in range(1, target_capacity + 1); st holds the table and i
RECURSIVE MaxOuter(_, _, _)
MaxOuter(st, sorted_piece_types_asc, target_capacity) ==
    IF st.i > target_capacity THEN st.dp_state
    ELSE MaxOuter([dp_state |-> MaxInner([dp_state |-> st.dp_state, k |-> 1], st.i, sorted_piece_types_asc),
                   i |-> st.i + 1],
                  sorted_piece_types_asc, target_capacity)

MaxTable(target_capacity, piece_types) ==
    MaxOuter([dp_state |-> MaxInit(target_capacity), i |-> 1],
             SortedAscSet(SetOf(piece_types)), target_capacity)

\* ------------------------------------------ optimize_greedy_largest_first
\* GreedyWhile looping while any capacity remains, whether the piece fits or not
RECURSIVE GreedyWhileOvershoot(_, _)
GreedyWhileOvershoot(g, piece_len) ==
    IF g.remaining_capacity > 0
    THEN GreedyWhileOvershoot([selected_pieces |-> Append(g.selected_pieces, piece_len),
                               current_sum |-> g.current_sum + piece_len,
                               remaining_capacity |-> g.remaining_capacity - piece_len],
                              piece_len)
    ELSE g

\* while remaining_capacity >= piece_len: append, add, subtract
RECURSIVE GreedyWhile(_, _)
GreedyWhile(g, piece_len) ==
    IF g.remaining_capacity >= piece_len
    THEN GreedyWhile([selected_pieces |-> Append(g.selected_pieces, piece_len),
                      current_sum |-> g.current_sum + piece_len,
                      remaining_capacity |-> g.remaining_capacity - piece_len],
                     piece_len)
    ELSE g

\* GreedyFor that fills with the largest piece length only
RECURSIVE GreedyForLargestOnly(_, _)
GreedyForLargestOnly(st, sorted_piece_types) ==
    IF st.k > 1 \/ st.k > Len(sorted_piece_types) THEN st.g
    ELSE GreedyForLargestOnly(
             [g |-> GreedyWhile(st.g, sorted_piece_types[st.k]), k |-> st.k + 1],
             sorted_piece_types)

\* for piece_len in sorted_piece_types; st holds the greedy state and the list index k
RECURSIVE GreedyFor(_, _)
GreedyFor(st, sorted_piece_types) ==
    IF st.k > Len(sorted_piece_types) THEN st.g
    ELSE GreedyFor([g |-> GreedyWhile(st.g, sorted_piece_types[st.k]), k |-> st.k + 1],
                   sorted_piece_types)

GreedyRun(target_capacity, piece_types) ==
    GreedyFor([g |-> [selected_pieces |-> <<>>, current_sum |-> 0,
                      remaining_capacity |-> target_capacity],
               k |-> 1],
              SortedDescSet(SetOf(piece_types)))

\* ------------------------------------------------------ the four selectors
\* the guard with "and" in place of "or"
EarlyReturnBothRequired(target_capacity, piece_types) ==
    target_capacity <= 0 /\ piece_types = <<>>

\* if target_capacity <= 0 or not piece_types: return 0, []
EarlyReturn(target_capacity, piece_types) ==
    target_capacity <= 0 \/ piece_types = <<>>

\* the DP table a selector builds (empty when it returns early or has none)
TableOf(fn, target_capacity, piece_types) ==
    IF EarlyReturn(target_capacity, piece_types) \/ fn = FN_GREEDY THEN <<>>
    ELSE IF fn = FN_LARGE THEN LargeTable(target_capacity, piece_types)
    ELSE IF fn = FN_MIN THEN MinTable(target_capacity, piece_types)
    ELSE MaxTable(target_capacity, piece_types)

\* what a selector returns, given its table: the pair (filled_sum, combination),
\* or raised = TRUE for the IndexError of reading a cell the table does not have
\* (a table of length target_capacity + 1 <= 0 is empty)
Select(fn, target_capacity, piece_types, table) ==
    IF EarlyReturn(target_capacity, piece_types)
    THEN [filled_sum |-> 0, combination |-> <<>>, raised |-> FALSE]
    ELSE IF fn = FN_GREEDY
    THEN LET g == GreedyRun(target_capacity, piece_types)
         IN [filled_sum |-> g.current_sum, combination |-> SortedDesc(g.selected_pieces),
             raised |-> FALSE]
    ELSE IF target_capacity \notin DOMAIN table
    THEN [filled_sum |-> 0, combination |-> <<>>, raised |-> TRUE]
    ELSE [filled_sum |-> table[target_capacity].sum,
          combination |-> SortedDesc(table[target_capacity].combo),
          raised |-> FALSE]

\* ------------------------------------------------------------------ state
VARIABLES
    pc,                 \* position of the running call
    fn,                 \* the selector called / optimization_func
    target_capacity,    \* selector argument
    piece_types,        \* selector argument
    dp,                 \* the selector's finished DP table
    ret,                \* the selector's return value
    calls,              \* number of selector invocations so far
    greedy,             \* locals of a greedy call that is run loop step by loop step
    total_length,
    user_selected_piece_types,
    base_min_end_margin,
    input_alpha_for_margin,
    internal_alpha_distribution_method,
    current_min_end_margin,
    usable_space_for_pieces,
    internal_alpha_waste,
    final_left_margin,
    final_right_margin,
    results             \* the dictionary calculate_single_strategy_layout returns

selVars == <<fn, target_capacity, piece_types, dp, ret, calls, greedy>>
argVars == <<total_length, user_selected_piece_types, base_min_end_margin,
             input_alpha_for_margin, internal_alpha_distribution_method>>
locVars == <<current_min_end_margin, usable_space_for_pieces, internal_alpha_waste,
             final_left_margin, final_right_margin>>
vars == <<pc, selVars, argVars, locVars, results>>

\* ----------------------------------------------------------------- inputs
\* piece_types lists of a direct call: any order, repetitions allowed
RECURSIVE SubSeqsOf(_)
SubSeqsOf(seq) ==
    IF seq = <<>> THEN {<<>>}
    ELSE LET r == SubSeqsOf(Tail(seq)) IN r \cup {<<Head(seq)>> \o s : s \in r}

DirectCatalogs == UNION {[1..n -> PieceLengths] : n \in 0..MaxCatalogLen}
DirectCapacities == (-1)..MaxCap
\* the checkbox loop appends the ticked lengths in master order
LayoutCatalogs == SubSeqsOf(AVAILABLE_PIECE_LENGTHS_MASTER)
LayoutTotals == {h * (Unit \div 2) : h \in 0..(2 * MaxTotal)}
LayoutBases == {ToFloat(0), ToFloat(1)}
LayoutAlphas == {0, Unit \div 2}
Methods == {DIST_EVEN, DIST_NONE, DIST_OTHER}

EmptyResults ==
    [status |-> "error", message |-> "", plot_elements |-> <<>>,
     internal_alpha_waste |-> 0, final_left_margin |-> 0, final_right_margin |-> 0,
     selected_pieces_combination |-> <<>>, num_pieces |-> 0]

Init ==
    /\ pc = "idle"
    /\ fn = FN_MIN
    /\ target_capacity = 0
    /\ piece_types = <<>>
    /\ dp = <<>>
    /\ ret = [filled_sum |-> 0, combination |-> <<>>, raised |-> FALSE]
    /\ calls = 0
    /\ greedy = [g |-> [selected_pieces |-> <<>>, current_sum |-> 0,
                        remaining_capacity |-> 0],
                 k |-> 1, sorted_piece_types |-> <<>>]
    /\ total_length = 0
    /\ user_selected_piece_types = <<>>
    /\ base_min_end_margin = 0
    /\ input_alpha_for_margin = 0
    /\ internal_alpha_distribution_method = DIST_EVEN
    /\ current_min_end_margin = 0
    /\ usable_space_for_pieces = 0
    /\ internal_alpha_waste = 0
    /\ final_left_margin = 0
    /\ final_right_margin = 0
    /\ results = EmptyResults

\* ---------------------------------------------------------------- actions
\* a selector called on its own
CallSelector(f, cap, types) ==
    /\ pc = "idle"
    /\ pc' = "returned"
    /\ fn' = f
    /\ target_capacity' = cap
    /\ piece_types' = types
    /\ dp' = TableOf(f, cap, types)
    /\ ret' = Select(f, cap, types, dp')
    /\ calls' = calls + 1
    /\ UNCHANGED <<greedy, argVars, locVars, results>>

\* the usable space with one end margin subtracted instead of two
UsableSpaceOneMargin(total, margin) == total - margin

\* usable_space_for_pieces = total_length - (2 * current_min_end_margin)
UsableSpace(total, margin) == total - (2 * margin)

\* calculate_single_strategy_layout: entry up to the usable-space computation
LayoutBegin(f, tl, types, base, alpha, method) ==
    /\ pc = "idle"
    /\ pc' = "check"
    /\ fn' = f
    /\ total_length' = tl
    /\ user_selected_piece_types' = types
    /\ base_min_end_margin' = base
    /\ input_alpha_for_margin' = alpha
    /\ internal_alpha_distribution_method' = method
    /\ results' = [EmptyResults EXCEPT
                      !.message = IF types = <<>> THEN "no_pieces_selected" ELSE ""]
    /\ current_min_end_margin' = base + alpha
    /\ usable_space_for_pieces' = UsableSpace(tl, base + alpha)
    /\ UNCHANGED <<target_capacity, piece_types, dp, ret, calls, greedy,
                   internal_alpha_waste, final_left_margin, final_right_margin>>

ErrorElements ==
    << [label |-> "requested_left_margin", start |-> 0, end |-> current_min_end_margin,
        length |-> current_min_end_margin, type |-> "margin"],
       [label |-> "requested_right_margin", start |-> total_length - current_min_end_margin,
        end |-> total_length, length |-> current_min_end_margin, type |-> "margin"],
       [label |-> "total_length_limit", start |-> 0, end |-> total_length,
        length |-> total_length, type |-> "limit_line"] >>

\* if usable_space_for_pieces < 0: return the error result
LayoutError ==
    /\ pc = "check"
    /\ usable_space_for_pieces < 0
    /\ pc' = "done"
    /\ results' = [results EXCEPT !.message = "margin_overflow",
                                  !.plot_elements = ErrorElements,
                                  !.status = "error"]
    /\ UNCHANGED <<selVars, argVars, locVars>>

\* optimization_func(int(usable_space_for_pieces), user_selected_piece_types)
LayoutSelect ==
    /\ pc = "check"
    /\ ~(usable_space_for_pieces < 0)
    /\ pc' = "distribute"
    /\ target_capacity' = IntOf(usable_space_for_pieces)
    /\ piece_types' = user_selected_piece_types
    /\ dp' = TableOf(fn, target_capacity', piece_types')
    /\ ret' = Select(fn, target_capacity', piece_types', dp')
    /\ calls' = calls + 1
    /\ internal_alpha_waste' = usable_space_for_pieces - ToFloat(ret'.filled_sum)
    /\ results' = [results EXCEPT !.selected_pieces_combination = ret'.combination,
                                  !.internal_alpha_waste = internal_alpha_waste']
    /\ UNCHANGED <<fn, greedy, argVars, current_min_end_margin, usable_space_for_pieces,
                   final_left_margin, final_right_margin>>

\* the margins after the waste is distributed and floored at zero
DistributedLeft(margin, waste, method) ==
    Max0(IF method = DIST_EVEN THEN margin + waste \div 2 ELSE margin)

\* DistributedRight giving the right margin the whole waste under the even policy
DistributedRightWholeWaste(margin, waste, method) ==
    Max0(IF method = DIST_EVEN THEN margin + waste
         ELSE IF method = DIST_NONE THEN margin + waste
         ELSE margin)

DistributedRight(margin, waste, method) ==
    Max0(IF method = DIST_EVEN THEN margin + waste \div 2
         ELSE IF method = DIST_NONE THEN margin + waste
         ELSE margin)

LayoutDistribute ==
    /\ pc = "distribute"
    /\ pc' = "reconcile"
    /\ final_left_margin' = DistributedLeft(current_min_end_margin, internal_alpha_waste,
                                            internal_alpha_distribution_method)
    /\ final_right_margin' = DistributedRight(current_min_end_margin, internal_alpha_waste,
                                              internal_alpha_distribution_method)
    /\ UNCHANGED <<selVars, argVars, current_min_end_margin, usable_space_for_pieces,
                   internal_alpha_waste, results>>

\* ReconciledRight without the residual correction
ReconciledRightNever(left, sum_selected_pieces, right, total) ==
    right

\* the right margin after the residual is pushed into it
ReconciledRight(left, sum_selected_pieces, right, total) ==
    LET current_total_calculated == left + ToFloat(sum_selected_pieces) + right
    IN  IF Abs(current_total_calculated - total) > 0
        THEN Max0(right + (total - current_total_calculated))
        ELSE right

LayoutReconcile ==
    /\ pc = "reconcile"
    /\ pc' = "emit"
    /\ final_right_margin' = ReconciledRight(final_left_margin, ret.filled_sum,
                                             final_right_margin, total_length)
    /\ results' = [results EXCEPT !.final_left_margin = final_left_margin,
                                  !.final_right_margin = final_right_margin']
    /\ UNCHANGED <<selVars, argVars, current_min_end_margin, usable_space_for_pieces,
                   internal_alpha_waste, final_left_margin>>

\* PieceElements without current_pos += p_len
RECURSIVE PieceElementsNoAdvance(_, _)
PieceElementsNoAdvance(combination, current_pos) ==
    IF combination = <<>> THEN <<>>
    ELSE LET p_len == Head(combination)
         IN <<[label |-> "piece", start |-> current_pos,
               end |-> current_pos + ToFloat(p_len),
               length |-> ToFloat(p_len), type |-> "piece"]>>
            \o PieceElementsNoAdvance(Tail(combination), current_pos)

\* for p_len in selected_pieces_combination: append a piece segment
RECURSIVE PieceElements(_, _)
PieceElements(combination, current_pos) ==
    IF combination = <<>> THEN <<>>
    ELSE LET p_len == Head(combination)
         IN <<[label |-> "piece", start |-> current_pos,
               end |-> current_pos + ToFloat(p_len),
               length |-> ToFloat(p_len), type |-> "piece"]>>
            \o PieceElements(Tail(combination), current_pos + ToFloat(p_len))

PlotElements(left, combination, right, total) ==
    <<[label |-> "left_margin", start |-> 0, end |-> 0 + left,
       length |-> left, type |-> "margin"]>>
    \o PieceElements(combination, 0 + left)
    \o <<[label |-> "right_margin", start |-> left + ToFloat(SumSeq(combination)),
          end |-> total, length |-> right, type |-> "margin"]>>

LayoutEmit ==
    /\ pc = "emit"
    /\ pc' = "done"
    /\ results' = [results EXCEPT
                      !.status = "success",
                      !.plot_elements = PlotElements(final_left_margin, ret.combination,
                                                     final_right_margin, total_length),
                      !.num_pieces = Len(ret.combination)]
    /\ UNCHANGED <<selVars, argVars, locVars>>

\* a direct selector call, with any arguments
DirectCall ==
    /\ pc = "idle"
    /\ \E f \in Strategies, cap \in DirectCapacities, types \in DirectCatalogs :
          CallSelector(f, cap, types)

\* a layout call, with any arguments
LayoutCall ==
    /\ pc = "idle"
    /\ \E f \in Strategies, tl \in LayoutTotals, types \in LayoutCatalogs,
          base \in LayoutBases, alpha \in LayoutAlphas, method \in Methods :
          LayoutBegin(f, tl, types, base, alpha, method)

\* ---------------- optimize_greedy_largest_first, one loop step per action
\* the while body with remaining_capacity -= current_sum
GreedyBodySubtractsSum(g, piece_len) ==
    [selected_pieces |-> Append(g.selected_pieces, piece_len),
     current_sum |-> g.current_sum + piece_len,
     remaining_capacity |-> g.remaining_capacity - (g.current_sum + piece_len)]

\* the while body: append piece_len, add it to the sum, subtract it from the rest
GreedyBody(g, piece_len) ==
    [selected_pieces |-> Append(g.selected_pieces, piece_len),
     current_sum |-> g.current_sum + piece_len,
     remaining_capacity |-> g.remaining_capacity - piece_len]

\* entry past the guard: the locals before the for loop
GreedyStart(cap, types) ==
    /\ pc = "idle"
    /\ ~EarlyReturn(cap, types)
    /\ pc' = "greedy_loop"
    /\ fn' = FN_GREEDY
    /\ target_capacity' = cap
    /\ piece_types' = types
    /\ greedy' = [g |-> [selected_pieces |-> <<>>, current_sum |-> 0,
                         remaining_capacity |-> cap],
                  k |-> 1, sorted_piece_types |-> SortedDescSet(SetOf(types))]
    /\ UNCHANGED <<dp, ret, calls, argVars, locVars, results>>

GreedyCall ==
    /\ pc = "idle"
    /\ \E cap \in DirectCapacities, types \in DirectCatalogs : GreedyStart(cap, types)

\* the while condition holds: run the body once
GreedyIterate ==
    /\ pc = "greedy_loop"
    /\ greedy.k <= Len(greedy.sorted_piece_types)
    /\ greedy.g.remaining_capacity >= greedy.sorted_piece_types[greedy.k]
    /\ greedy' = [greedy EXCEPT !.g = GreedyBody(@, greedy.sorted_piece_types[greedy.k])]
    /\ UNCHANGED <<pc, fn, target_capacity, piece_types, dp, ret, calls,
                   argVars, locVars, results>>

\* the while condition fails: the for loop takes the next piece length
GreedyAdvance ==
    /\ pc = "greedy_loop"
    /\ greedy.k <= Len(greedy.sorted_piece_types)
    /\ ~(greedy.g.remaining_capacity >= greedy.sorted_piece_types[greedy.k])
    /\ greedy' = [greedy EXCEPT !.k = @ + 1]
    /\ UNCHANGED <<pc, fn, target_capacity, piece_types, dp, ret, calls,
                   argVars, locVars, results>>

\* the for loop is exhausted: return current_sum and the sorted pieces
GreedyReturn ==
    /\ pc = "greedy_loop"
    /\ greedy.k > Len(greedy.sorted_piece_types)
    /\ pc' = "returned"
    /\ ret' = [filled_sum |-> greedy.g.current_sum,
               combination |-> SortedDesc(greedy.g.selected_pieces),
               raised |-> FALSE]
    /\ calls' = calls + 1
    /\ UNCHANGED <<fn, target_capacity, piece_types, dp, greedy,
                   argVars, locVars, results>>

Next ==
    \/ DirectCall
    \/ GreedyCall
    \/ GreedyIterate
    \/ GreedyAdvance
    \/ GreedyReturn
    \/ LayoutCall
    \/ LayoutError
    \/ LayoutSelect
    \/ LayoutDistribute
    \/ LayoutReconcile
    \/ LayoutEmit

Spec == Init /\ [][Next]_vars

\* ------------------------------------------------- reference definitions
\* every (sum, number of pieces) a multiset of values of S with sum <= cap has
RECURSIVE Closure(_, _, _)
Closure(R, S, cap) ==
    LET more == {x \in {<<r[1] + p, r[2] + 1>> : r \in R, p \in S} : x[1] <= cap}
    IN  IF more \subseteq R THEN R ELSE Closure(R \cup more, S, cap)

Multisets(S, cap) == Closure({<<0, 0>>}, S, cap)

\* the largest sum <= cap of values of S, with repetition
BestSum(S, cap) == SetMax({r[1] : r \in Multisets(S, cap)})
\* the piece counts of the multisets of values of S whose sum is exactly total
CountsOf(S, cap, total) == {r[2] : r \in {x \in Multisets(S, cap) : x[1] = total}}

\* a selector has returned (on its own or inside the layout)
Returned == calls > 0
Catalog == SetOf(piece_types)
\* the arguments the optimum claims cover
ProperCall == Returned /\ target_capacity >= 1 /\ piece_types # <<>>
\* what selector f returns on the current arguments
ResultOf(f) == Select(f, target_capacity, piece_types,
                      TableOf(f, target_capacity, piece_types))

\* ----------------------------------------------------------------- claims
\* C1: for capacity >= 1 and a non-empty catalogue, each DP selector returns
\* as filled_sum the largest sum <= capacity of catalogue values with
\* repetition, so the three DP selectors return the same filled_sum.
C1_MaxFill ==
    (ProperCall /\ fn \in DPStrategies) =>
        /\ ret.filled_sum = BestSum(Catalog, target_capacity)
        /\ \A f \in DPStrategies : ResultOf(f).filled_sum = ret.filled_sum

\* a DP selector has returned a non-zero fill that leaves part of the capacity
C1_Witness ==
    /\ ProperCall /\ fn \in DPStrategies
    /\ Cardinality(Catalog) >= 2
    /\ ret.filled_sum > 0 /\ ret.filled_sum < target_capacity

\* C2: for every selector and capacity >= 0, the returned combination sums to
\* at most the capacity and uses only values of the input catalogue.
C2_WithinCapacity ==
    (Returned /\ target_capacity >= 0) =>
        /\ SumSeq(ret.combination) <= target_capacity
        /\ SetOf(ret.combination) \subseteq Catalog

\* the greedy selector has returned several pieces of different lengths
C2_Witness ==
    /\ Returned /\ target_capacity >= 0 /\ fn = FN_GREEDY
    /\ Cardinality(SetOf(ret.combination)) >= 2
    /\ SumSeq(ret.combination) < target_capacity

\* C3: for every selector and input, filled_sum is the sum of the returned
\* combination, and in the DP selectors the sum kept in every table cell is
\* the sum of the combination kept in that cell.
C3_SumMatchesCombination ==
    Returned =>
        /\ ret.filled_sum = SumSeq(ret.combination)
        /\ \A i \in DOMAIN dp : dp[i].sum = SumSeq(dp[i].combo)

\* a DP table holds a cell of several pieces that does not fill its capacity
C3_Witness ==
    /\ Returned /\ fn \in DPStrategies
    /\ \E i \in DOMAIN dp : Len(dp[i].combo) >= 2 /\ dp[i].sum < i
    /\ Len(ret.combination) >= 2

\* C4: for capacity >= 1 and a non-empty catalogue, the combination returned
\* by optimize_dp_max_fill_min_pieces has the fewest pieces among the
\* multisets of catalogue values whose sum is the largest sum <= capacity,
\* also when that sum is below the capacity.
C4_MinPieces ==
    (ProperCall /\ fn = FN_MIN) =>
        Len(ret.combination) =
            SetMin(CountsOf(Catalog, target_capacity, BestSum(Catalog, target_capacity)))

\* C4, second part: the count kept in every cell of the min-pieces table is the
\* fewest pieces that reach the cell's best sum.
C4_CellCounts ==
    (ProperCall /\ fn = FN_MIN) =>
        \A i \in DOMAIN dp : dp[i].num = SetMin(CountsOf(Catalog, i, dp[i].sum))

\* C5: for capacity >= 1 and a non-empty catalogue, the combination returned
\* by optimize_dp_max_fill_max_pieces has the most pieces among the multisets
\* of catalogue values whose sum is the largest sum <= capacity.
C5_MaxPieces ==
    (ProperCall /\ fn = FN_MAX) =>
        Len(ret.combination) =
            SetMax(CountsOf(Catalog, target_capacity, BestSum(Catalog, target_capacity)))

\* max-pieces has returned where the best sum is reached with different counts
\* and is below the capacity
C5_Witness ==
    /\ ProperCall /\ fn = FN_MAX
    /\ ret.filled_sum < target_capacity
    /\ Cardinality(CountsOf(Catalog, target_capacity, ret.filled_sum)) >= 2

\* C6 as stated: greedy's filled_sum is <= the filled_sum of each DP selector
\* on the same inputs, and for capacity 9 and catalogue {4,5} greedy returns
\* (5, [5]) while the DP selectors return filled_sum 9 with [5,4].
C6_AsStated ==
    Returned =>
        /\ fn = FN_GREEDY =>
              \A f \in DPStrategies : ret.filled_sum <= ResultOf(f).filled_sum
        /\ (target_capacity = 9 /\ Catalog = {4, 5}) =>
              /\ fn = FN_GREEDY => ret.filled_sum = 5 /\ ret.combination = <<5>>
              /\ fn \in DPStrategies => ret.filled_sum = 9 /\ ret.combination = <<5, 4>>

\* C6 amended: greedy's filled_sum is <= the filled_sum of each DP selector on
\* the same inputs; for capacity 9 and catalogue {4,5} all four selectors
\* return (9, [5,4]); the inequality is strict for capacity 8 and catalogue
\* {4,5}, where greedy returns (5, [5]) and the DP selectors (8, [4,4]).
C6_GreedyNeverBetter ==
    Returned =>
        /\ fn = FN_GREEDY =>
              \A f \in DPStrategies : ret.filled_sum <= ResultOf(f).filled_sum
        /\ (target_capacity = 9 /\ Catalog = {4, 5}) =>
              ret.filled_sum = 9 /\ ret.combination = <<5, 4>>
        /\ (target_capacity = 8 /\ Catalog = {4, 5}) =>
              /\ fn = FN_GREEDY => ret.filled_sum = 5 /\ ret.combination = <<5>>
              /\ fn \in DPStrategies => ret.filled_sum = 8 /\ ret.combination = <<4, 4>>

\* greedy has returned less than the DP optimum
C6_Witness ==
    /\ Returned /\ fn = FN_GREEDY
    /\ target_capacity = 8 /\ Catalog = {4, 5}
    /\ ret.filled_sum < ResultOf(FN_MIN).filled_sum

\* C7: each selector returns exactly (0, []) and raises nothing when
\* capacity <= 0 or the catalogue is empty.
C7_EarlyReturn ==
    (Returned /\ (target_capacity <= 0 \/ piece_types = <<>>)) =>
        ret = [filled_sum |-> 0, combination |-> <<>>, raised |-> FALSE]

\* a DP selector has returned from a negative capacity and a non-empty catalogue
C7_Witness ==
    /\ Returned /\ fn \in DPStrategies
    /\ target_capacity < 0 /\ piece_types # <<>>

\* the layout was asked for margins that leave a negative usable capacity
Overflow == total_length - 2 * (base_min_end_margin + input_alpha_for_margin) < 0
Success == pc = "done" /\ results.status = "success"

\* C8: when total_length - 2*(base_margin + margin_alpha) < 0 the layout
\* returns status error without ever invoking the selector, with an empty
\* combination and exactly three segments: the two requested margins and the
\* limit marker ending at total_length, none of them a piece.
C8_MarginOverflow ==
    (pc \in {"check", "done"} /\ Overflow) =>
        /\ calls = 0
        /\ pc = "done" =>
              LET el == results.plot_elements
                  m == base_min_end_margin + input_alpha_for_margin
              IN /\ results.status = "error"
                 /\ results.selected_pieces_combination = <<>>
                 /\ Len(el) = 3
                 /\ el[1] = [label |-> "requested_left_margin", start |-> 0, end |-> m,
                             length |-> m, type |-> "margin"]
                 /\ el[2] = [label |-> "requested_right_margin",
                             start |-> total_length - m, end |-> total_length,
                             length |-> m, type |-> "margin"]
                 /\ el[3].type = "limit_line" /\ el[3].end = total_length
                 /\ \A k \in 1..3 : el[k].type # "piece"

\* an error result where one margin fits the length but two do not, pieces selected
C8_Witness ==
    /\ pc = "done" /\ Overflow
    /\ total_length > base_min_end_margin + input_alpha_for_margin
    /\ input_alpha_for_margin > 0
    /\ user_selected_piece_types # <<>>

\* C9: in a success result under the even or the none policy the segments are
\* the left margin from 0, one piece segment per element of the combination in
\* its descending order, and the right margin ending at total_length; each
\* segment starts where the previous one ends, has length end - start, and the
\* lengths sum to total_length = left margin + filled_sum + right margin.
C9_SegmentsCover ==
    (Success /\ internal_alpha_distribution_method \in {DIST_EVEN, DIST_NONE}) =>
        LET el == results.plot_elements
            combo == results.selected_pieces_combination
            n == Len(el)
        IN /\ n = Len(combo) + 2
           /\ el[1].label = "left_margin" /\ el[1].type = "margin" /\ el[1].start = 0
           /\ el[1].length = results.final_left_margin
           /\ \A k \in 1..Len(combo) :
                 /\ el[k + 1].type = "piece"
                 /\ el[k + 1].length = ToFloat(combo[k])
           /\ \A k \in 1..(Len(combo) - 1) : combo[k] >= combo[k + 1]
           /\ el[n].label = "right_margin" /\ el[n].type = "margin"
           /\ el[n].end = total_length
           /\ el[n].length = results.final_right_margin
           /\ \A k \in 2..n : el[k].start = el[k - 1].end
           /\ \A k \in 1..n : el[k].length = el[k].end - el[k].start
           /\ SumSeq([k \in 1..n |-> el[k].length]) = total_length
           /\ results.final_left_margin + ToFloat(ret.filled_sum)
                 + results.final_right_margin = total_length

\* a success result with pieces of two lengths and waste in both margins
C9_Witness ==
    /\ Success /\ internal_alpha_distribution_method = DIST_EVEN
    /\ Cardinality(SetOf(results.selected_pieces_combination)) >= 2
    /\ results.internal_alpha_waste > 0
    /\ current_min_end_margin > 0

\* C10: in a success result internal_waste = usable_capacity - filled_sum >= 0;
\* under the even policy both final margins are effective_margin +
\* internal_waste/2, under the none policy the left one is effective_margin
\* and the right one effective_margin + internal_waste; and under both the
\* reconciliation step changes neither margin.
C10_State ==
    Success =>
        LET m == base_min_end_margin + input_alpha_for_margin
            waste == results.internal_alpha_waste
        IN /\ waste = (total_length - 2 * m) - ToFloat(ret.filled_sum)
           /\ waste >= 0
           /\ internal_alpha_distribution_method = DIST_EVEN =>
                 /\ 2 * results.final_left_margin = 2 * m + waste
                 /\ 2 * results.final_right_margin = 2 * m + waste
           /\ internal_alpha_distribution_method = DIST_NONE =>
                 /\ results.final_left_margin = m
                 /\ results.final_right_margin = m + waste

C10_Step ==
    (pc = "reconcile" /\ internal_alpha_distribution_method \in {DIST_EVEN, DIST_NONE}) =>
        /\ final_left_margin' = final_left_margin
        /\ final_right_margin' = final_right_margin

C10_WasteDistribution == [](C10_State) /\ [][C10_Step]_vars

\* a success result whose waste is an odd number of half units, split evenly
C10_Witness ==
    /\ Success /\ internal_alpha_distribution_method = DIST_EVEN
    /\ results.internal_alpha_waste > 0
    /\ results.internal_alpha_waste % Unit # 0
    /\ ret.filled_sum > 0

\* C11: whenever min-pieces and max-pieces return the same filled_sum on the
\* same inputs, the min-pieces combination has at most as many pieces as the
\* max-pieces combination.
C11_MinNotMoreThanMax ==
    (Returned /\ fn = FN_MIN) =>
        LET other == ResultOf(FN_MAX)
        IN  other.filled_sum = ret.filled_sum =>
                Len(ret.combination) <= Len(other.combination)

\* min-pieces has returned fewer pieces than max-pieces for the same sum
C11_Witness ==
    /\ Returned /\ fn = FN_MIN /\ ret.filled_sum > 0
    /\ ResultOf(FN_MAX).filled_sum = ret.filled_sum
    /\ Len(ret.combination) < Len(ResultOf(FN_MAX).combination)

\* C12: the layout returns status error exactly when the usable capacity is
\* negative; when it is not, a usable capacity of 0, an empty catalogue or a
\* catalogue whose smallest piece exceeds the usable capacity each give status
\* success with an empty combination and exactly two margin segments that
\* together cover [0, total_length].
C12_OnlyOverflowIsError ==
    pc = "done" =>
        /\ results.status = "error" <=> Overflow
        /\ results.status = "success" <=> ~Overflow
        /\ (/\ ~Overflow
            /\ \/ total_length - 2 * (base_min_end_margin + input_alpha_for_margin) = 0
               \/ user_selected_piece_types = <<>>
               \/ \A p \in SetOf(user_selected_piece_types) :
                     ToFloat(p) > total_length
                                    - 2 * (base_min_end_margin + input_alpha_for_margin))
           => LET el == results.plot_elements
              IN /\ results.status = "success"
                 /\ results.selected_pieces_combination = <<>>
                 /\ Len(el) = 2
                 /\ el[1].type = "margin" /\ el[2].type = "margin"
                 /\ el[1].start = 0
                 /\ el[1].end = el[2].start
                 /\ el[2].end = total_length
                 /\ el[1].length = el[1].end - el[1].start
                 /\ el[2].length = el[2].end - el[2].start

\* a success result where pieces were offered but the smallest one is longer
\* than the positive, fractional usable capacity
C12_Witness ==
    /\ Success
    /\ user_selected_piece_types # <<>>
    /\ usable_space_for_pieces > 0
    /\ usable_space_for_pieces % Unit # 0
    /\ \A p \in SetOf(user_selected_piece_types) : ToFloat(p) > usable_space_for_pieces
    /\ ToFloat(SetMin(SetOf(user_selected_piece_types))) < usable_space_for_pieces + Unit

\* C13: for every selector, capacity >= 0 and non-empty catalogue, the
\* remainder capacity - filled_sum is >= 0 and smaller than the smallest
\* catalogue value; in the greedy loop remaining_capacity strictly decreases
\* with every iteration and never goes negative, and the loop terminates:
\* every loop step lowers a non-negative measure and the for index stays in
\* range, so one of the loop's three steps is always possible.
C13_Remainder ==
    (Returned /\ target_capacity >= 0 /\ piece_types # <<>>) =>
        /\ target_capacity - ret.filled_sum >= 0
        /\ target_capacity - ret.filled_sum < SetMin(Catalog)

\* remaining capacity plus the piece lengths the for loop has still to visit
C13_Measure ==
    greedy.g.remaining_capacity + (Len(greedy.sorted_piece_types) + 1 - greedy.k)

C13_LoopInvariant ==
    pc = "greedy_loop" =>
        /\ greedy.g.remaining_capacity >= 0
        /\ greedy.g.remaining_capacity + greedy.g.current_sum = target_capacity
        /\ C13_Measure >= 0
        /\ greedy.k \in 1..(Len(greedy.sorted_piece_types) + 1)

C13_LoopStep ==
    pc = "greedy_loop" =>
        /\ pc' = "returned" \/ C13_Measure' < C13_Measure
        /\ greedy'.g # greedy.g =>
              /\ greedy'.g.remaining_capacity < greedy.g.remaining_capacity
              /\ greedy'.g.remaining_capacity >= 0

C13_NothingFits ==
    [](C13_Remainder /\ C13_LoopInvariant) /\ [][C13_LoopStep]_vars

\* the greedy loop has returned pieces of two lengths and left a remainder
C13_Witness ==
    /\ pc = "returned" /\ fn = FN_GREEDY
    /\ Cardinality(SetOf(greedy.g.selected_pieces)) >= 2
    /\ greedy.g.remaining_capacity > 0
    /\ target_capacity - ret.filled_sum = greedy.g.remaining_capacity

\* C14: with a waste policy that is neither the even nor the none label and
\* usable capacity >= 0, neither distribution branch runs (both margins stay
\* at the effective margin), the reconciliation step adds the whole residual,
\* which is the internal waste, to the right margin, and the success result
\* equals the one of the none policy: left margin = effective margin, right
\* margin = effective margin + internal waste, segments covering
\* [0, total_length].
C14_State ==
    (Success /\ internal_alpha_distribution_method = DIST_OTHER) =>
        LET m == base_min_end_margin + input_alpha_for_margin
            waste == results.internal_alpha_waste
            el == results.plot_elements
            combo == results.selected_pieces_combination
            n == Len(el)
        IN /\ waste = (total_length - 2 * m) - ToFloat(ret.filled_sum)
           /\ results.final_left_margin = m
           /\ results.final_right_margin = m + waste
           /\ results.final_left_margin = DistributedLeft(m, waste, DIST_NONE)
           /\ results.final_right_margin = DistributedRight(m, waste, DIST_NONE)
           /\ n = Len(combo) + 2
           /\ el[1].label = "left_margin" /\ el[1].start = 0
           /\ el[1].length = results.final_left_margin
           /\ \A k \in 1..Len(combo) :
                 el[k + 1].type = "piece" /\ el[k + 1].length = ToFloat(combo[k])
           /\ el[n].label = "right_margin" /\ el[n].end = total_length
           /\ el[n].length = results.final_right_margin
           /\ \A k \in 2..n : el[k].start = el[k - 1].end
           /\ \A k \in 1..n : el[k].length = el[k].end - el[k].start

C14_Step ==
    internal_alpha_distribution_method = DIST_OTHER =>
        /\ pc = "distribute" =>
              /\ final_left_margin' = current_min_end_margin
              /\ final_right_margin' = current_min_end_margin
        /\ pc = "reconcile" =>
              /\ final_left_margin' = final_left_margin
              /\ final_right_margin' = final_right_margin + internal_alpha_waste

C14_OtherPolicyIsNone == [](C14_State) /\ [][C14_Step]_vars

\* a success result under an unrecognised policy with pieces, margins and waste
C14_Witness ==
    /\ Success /\ internal_alpha_distribution_method = DIST_OTHER
    /\ results.internal_alpha_waste > 0
    /\ ret.filled_sum > 0
    /\ current_min_end_margin > 0
    /\ results.final_right_margin > results.final_left_margin

====
